---- MODULE Spec2Model ----
(***************************************************************************)
(* Model of two components of core-components:                             *)
(*   - VirtualOptionsList (packages/select/.../virtual-options-list)       *)
(*   - Popover            (packages/popover)                               *)
(*                                                                         *)
(* A React function component is modelled as a state machine whose steps   *)
(* are commits: one render with the props of that render followed by the   *)
(* effects of that render, in declaration order.  An effect with a         *)
(* dependency array runs on the first commit and whenever one of its       *)
(* dependencies differs from the previous commit.                          *)
(*                                                                         *)
(* Flat indices are 0-based as in the source; position i of the source     *)
(* array is element i + 1 of the TLA+ sequence.                            *)
(***************************************************************************)
EXTENDS Integers, Sequences, FiniteSets

\* ------------------------------------------------------------------ bounds

\* Longest flat option list explored.
MaxLen == 4

\* ------------------------------------------------------- VirtualOptionsList

VARIABLES
    lmounted,                     \* the list has committed at least once
    open,                         \* prop `open`
    highlightedIndex,             \* prop `highlightedIndex`, -1 = none
    flatOptions,                  \* prop `flatOptions`: disabled flag of each option
    virtualItems,                 \* rowVirtualizer.virtualItems: indices rendered
    usePreviousResult,            \* what usePrevious(highlightedIndex) returned at
                                  \*   the last render: <<>> (undefined) or <<v>>
    visibleOptionsInvalidateKey,  \* useState(0)
    scrollRequests                \* rowVirtualizer.scrollToIndex calls of the last commit

listVars == <<lmounted, open, highlightedIndex, flatOptions, virtualItems,
              usePreviousResult, visibleOptionsInvalidateKey, scrollRequests>>

\* Group-start-index map of VirtualOptionsList
VARIABLES
    options,            \* prop `options`: top-level options and groups
    groupStartIndexes,  \* useMemo(..., [options]): flat index -> index in options
    rowHeaders          \* per rendered row: <<g>> when the header of options[g]
                        \*   is rendered above the row, <<>> when none is

groupVars == <<options, groupStartIndexes, rowHeaders>>

\* Popover.getModifiers
VARIABLES
    withArrow,           \* prop, default false
    preventFlip,         \* prop
    fallbackPlacements,  \* prop: <<>> when absent, <<list>> when provided
    preventOverflow,     \* prop, default true
    arrowElement,        \* state: the arrow node, "null" when there is none
    modifiers            \* getModifiers() of the last render

modVars == <<withArrow, preventFlip, fallbackPlacements, preventOverflow,
             arrowElement, modifiers>>

\* Popover: anchor, width mirroring, resize observation
VARIABLES
    pmounted,          \* the Popover is mounted
    anchorElement,     \* prop: "null" or an element
    useAnchorWidth,    \* prop
    update,            \* prop: TRUE when the caller passes the `update` ref
    updateCurrent,     \* update.current of the caller's ref object: "null", or
                       \*   the update function of a "live" or of a destroyed
                       \*   ("stale") positioning instance
    popoverOpen,       \* prop `open`
    withTransition,    \* prop, default true
    referenceElement,  \* state, useState(anchorElement)
    panelMounted,      \* the panel (renderContent) is in the tree
    popperReference,   \* reference element of the positioning instance, "null"
                       \*   when there is no instance
    needsRender,       \* a state update has scheduled another render
    appliedWidth,      \* style.width of the panel at the last render: <<w>>,
                       \*   or <<>> when undefined or there is no panel
    offsetWidth,       \* the measured width of each element
    observers,         \* the connected ResizeObservers
    resizeOutcome      \* what the last observed resize of the anchor did:
                       \*   "invoked" the recompute handle, "skipped" it, or
                       \*   "none" when no resize was observed since the props changed

popVars == <<pmounted, anchorElement, useAnchorWidth, update, updateCurrent,
             popoverOpen, withTransition, referenceElement, panelMounted,
             popperReference, needsRender, appliedWidth, offsetWidth, observers,
             resizeOutcome>>

\* Option lists: TRUE marks a disabled option.
FlatOptionLists == UNION {[1..n -> BOOLEAN] : n \in 0..MaxLen}

\* The values the highlight can take over a list of n options.
HighlightValues(n) == -1..(n - 1)

\* The virtualizer renders a contiguous range of rows, possibly none and
\* possibly (transiently) a single one.
Windows(n) == {{}} \cup {a..b : a \in 0..(n - 1), b \in 0..(n - 1)}

\* usePrevious: the value the argument had at the previous render, undefined
\* at the first render.
UsePrevious(mounted, last) == IF mounted THEN <<last>> ELSE <<>>

\* `usePrevious(highlightedIndex) || -1`: undefined and 0 are both falsy.
PrevHighlightedIndex(prev) ==
    IF prev = <<>> THEN -1 ELSE IF prev[1] = 0 THEN -1 ELSE prev[1]

\* flatOptions.findIndex(notDisabled)
FirstNonDisabled(flat) ==
    IF \E i \in 1..Len(flat) : ~flat[i]
    THEN (CHOOSE i \in 1..Len(flat) : ~flat[i] /\ \A j \in 1..(i - 1) : flat[j]) - 1
    ELSE -1

\* lastIndexOf(flatOptions, notDisabled)
LastNonDisabled(flat) ==
    IF \E i \in 1..Len(flat) : ~flat[i]
    THEN (CHOOSE i \in 1..Len(flat) : ~flat[i] /\ \A j \in (i + 1)..Len(flat) : flat[j]) - 1
    ELSE -1

ScrollRequest(i, a, by) == [index |-> i, align |-> a, by |-> by]

\* Effect 1 without its dependency array: it runs after every render.
OpenEffectEveryRender(changed, o, h) ==
    IF o THEN <<ScrollRequest(h, "end", "open")>> ELSE <<>>

\* Effect 1, deps [open]: scroll to the selected option when the menu opens.
OpenEffect(changed, o, h) ==
    IF changed /\ o THEN <<ScrollRequest(h, "end", "open")>> ELSE <<>>

\* Effect 2 without the test that the option is not rendered.
HighlightEffectAlways(changed, h, vi) ==
    IF ~changed \/ h = -1 THEN <<>>
    ELSE <<ScrollRequest(h, "end", "highlight")>>

\* Effect 2, deps [highlightedIndex]: scroll to an option that is off screen.
HighlightEffect(changed, h, vi) ==
    IF ~changed \/ h = -1 THEN <<>>
    ELSE IF h \notin vi THEN <<ScrollRequest(h, "end", "highlight")>>
    ELSE <<>>

\* Effect 3 with `<` for `<=` in the top-to-bottom test.
CyclicEffectStrictTop(changed, prevHI, h, flat) ==
    IF ~changed THEN <<>>
    ELSE (IF prevHI < FirstNonDisabled(flat) /\ h = Len(flat) - 1
          THEN <<ScrollRequest(LastNonDisabled(flat), "auto", "wrapToLast")>>
          ELSE <<>>)
         \o
         (IF prevHI >= LastNonDisabled(flat) /\ h = 0
          THEN <<ScrollRequest(0, "auto", "wrapToFirst")>>
          ELSE <<>>)

\* Effect 3 with `>` for `>=` in the bottom-to-top test.
CyclicEffectStrictBottom(changed, prevHI, h, flat) ==
    IF ~changed THEN <<>>
    ELSE (IF prevHI <= FirstNonDisabled(flat) /\ h = Len(flat) - 1
          THEN <<ScrollRequest(LastNonDisabled(flat), "auto", "wrapToLast")>>
          ELSE <<>>)
         \o
         (IF prevHI > LastNonDisabled(flat) /\ h = 0
          THEN <<ScrollRequest(0, "auto", "wrapToFirst")>>
          ELSE <<>>)

\* Effect 3, deps [prevHighlightedIndex, highlightedIndex]: cyclic navigation.
CyclicEffect(changed, prevHI, h, flat) ==
    IF ~changed THEN <<>>
    ELSE (IF prevHI <= FirstNonDisabled(flat) /\ h = Len(flat) - 1
          THEN <<ScrollRequest(LastNonDisabled(flat), "auto", "wrapToLast")>>
          ELSE <<>>)
         \o
         (IF prevHI >= LastNonDisabled(flat) /\ h = 0
          THEN <<ScrollRequest(0, "auto", "wrapToFirst")>>
          ELSE <<>>)

\* Effect 4, deps [virtualItems.length, flatOptions.length].
InvalidateKey(changed, key, nVirtual, nFlat) ==
    IF changed THEN (IF nVirtual > 1 THEN nFlat ELSE 1) ELSE key

\* One commit of the component with props (o, h, flat) and virtual rows vi.
Commit(o, h, flat, vi) ==
    LET prev == UsePrevious(lmounted, highlightedIndex)
        first == ~lmounted
    IN  /\ lmounted' = TRUE
        /\ open' = o
        /\ highlightedIndex' = h
        /\ flatOptions' = flat
        /\ virtualItems' = vi
        /\ usePreviousResult' = prev
        /\ scrollRequests' =
              OpenEffect(first \/ o # open, o, h)
              \o HighlightEffect(first \/ h # highlightedIndex, h, vi)
              \o CyclicEffect(first
                                \/ PrevHighlightedIndex(prev)
                                     # PrevHighlightedIndex(usePreviousResult)
                                \/ h # highlightedIndex,
                              PrevHighlightedIndex(prev), h, flat)
        /\ UNCHANGED <<groupVars, modVars, popVars>>
        /\ visibleOptionsInvalidateKey' =
              InvalidateKey(first
                              \/ Cardinality(vi) # Cardinality(virtualItems)
                              \/ Len(flat) # Len(flatOptions),
                            visibleOptionsInvalidateKey, Cardinality(vi), Len(flat))

ListInit ==
    /\ lmounted = FALSE
    /\ open = FALSE
    /\ highlightedIndex = -1
    /\ flatOptions = <<>>
    /\ virtualItems = {}
    /\ usePreviousResult = <<>>
    /\ visibleOptionsInvalidateKey = 0
    /\ scrollRequests = <<>>

\* First render.
Mount ==
    /\ ~lmounted
    /\ \E o \in BOOLEAN, flat \in FlatOptionLists :
         \E h \in HighlightValues(Len(flat)), vi \in Windows(Len(flat)) :
            Commit(o, h, flat, vi)

\* The owner moves the highlight.
Navigate ==
    /\ lmounted
    /\ \E h \in HighlightValues(Len(flatOptions)) \ {highlightedIndex} :
         Commit(open, h, flatOptions, virtualItems)

\* The owner opens or closes the menu, possibly moving the highlight with it.
Toggle ==
    /\ lmounted
    /\ \E h \in HighlightValues(Len(flatOptions)) :
         Commit(~open, h, flatOptions, virtualItems)

\* The option list grows by one option.
AppendOption ==
    /\ lmounted
    /\ Len(flatOptions) < MaxLen
    /\ \E d \in BOOLEAN, h \in HighlightValues(Len(flatOptions) + 1) :
         \E vi \in Windows(Len(flatOptions) + 1) :
            Commit(open, h, Append(flatOptions, d), vi)

\* The option list loses its last option.
RemoveOption ==
    /\ lmounted
    /\ Len(flatOptions) > 0
    /\ \E h \in HighlightValues(Len(flatOptions) - 1) :
         \E vi \in Windows(Len(flatOptions) - 1) :
            Commit(open, h, SubSeq(flatOptions, 1, Len(flatOptions) - 1), vi)

\* An option becomes disabled or enabled.
SetDisabled ==
    /\ lmounted
    /\ \E i \in 1..Len(flatOptions) :
         Commit(open, highlightedIndex,
                [flatOptions EXCEPT ![i] = ~flatOptions[i]], virtualItems)

\* The virtualizer reports another set of rows (scroll, measurement).
VirtualizerUpdate ==
    /\ lmounted
    /\ \E vi \in Windows(Len(flatOptions)) \ {virtualItems} :
         Commit(open, highlightedIndex, flatOptions, vi)

\* A render with nothing changed (a state update, a parent render).
Rerender ==
    /\ lmounted
    /\ Commit(open, highlightedIndex, flatOptions, virtualItems)

ListNext ==
    \/ Mount
    \/ Navigate
    \/ Toggle
    \/ AppendOption
    \/ RemoveOption
    \/ SetDisabled
    \/ VirtualizerUpdate
    \/ Rerender

\* ------------------------------------------ properties of VirtualOptionsList

\* The requests of the last commit issued from the source place `by`.
RequestsBy(by) ==
    {scrollRequests[i] : i \in {j \in 1..Len(scrollRequests) : scrollRequests[j].by = by}}

\* The last commit was a re-render (there is a previous render).
HasPreviousRender == usePreviousResult # <<>>

\* The highlight of the previous render, when there is one.
PreviousHighlight == usePreviousResult[1]

\* The highlight differs from the previous render's.
HighlightMoved == HasPreviousRender /\ PreviousHighlight # highlightedIndex

\* C1 as stated: for every pair of consecutive renders, if the previous
\* highlight was at or before the first non-disabled option and the current
\* highlight is the last flat index, the cyclic effect requests a scroll to
\* the last non-disabled option.
C1_Original ==
    (/\ HasPreviousRender
     /\ PreviousHighlight <= FirstNonDisabled(flatOptions)
     /\ highlightedIndex = Len(flatOptions) - 1)
    => ScrollRequest(LastNonDisabled(flatOptions), "auto", "wrapToLast")
          \in RequestsBy("wrapToLast")

\* C1 amended: the same, for pairs of consecutive renders between which the
\* highlighted index changed.
C1_WrapTopToBottom ==
    (/\ HighlightMoved
     /\ PreviousHighlight <= FirstNonDisabled(flatOptions)
     /\ highlightedIndex = Len(flatOptions) - 1)
    => ScrollRequest(LastNonDisabled(flatOptions), "auto", "wrapToLast")
          \in RequestsBy("wrapToLast")

\* C1 witness: [A, B, C] all enabled, the highlight moved from 0 to 2 and the
\* wrap scroll to index 2 was requested.
C1_Witness ==
    /\ flatOptions = <<FALSE, FALSE, FALSE>>
    /\ usePreviousResult = <<0>>
    /\ highlightedIndex = 2
    /\ ScrollRequest(2, "auto", "wrapToLast") \in RequestsBy("wrapToLast")

\* C2 as stated: for every pair of consecutive renders, the cyclic effect
\* requests a scroll to index 0 if and only if the previous highlight was at
\* or after the last non-disabled option and the current highlight is 0.
C2_Original ==
    HasPreviousRender =>
        ((\E r \in RequestsBy("wrapToLast") \cup RequestsBy("wrapToFirst") : r.index = 0)
         <=> (PreviousHighlight >= LastNonDisabled(flatOptions) /\ highlightedIndex = 0))

\* C2 amended: for pairs of consecutive renders between which the highlighted
\* index changed, the bottom-to-top branch of the cyclic effect requests a
\* scroll, and then to index 0, if and only if the previous highlight was at
\* or after the last non-disabled option and the current highlight is 0.
C2_WrapBottomToTop ==
    HighlightMoved =>
        /\ RequestsBy("wrapToFirst") \subseteq {ScrollRequest(0, "auto", "wrapToFirst")}
        /\ (RequestsBy("wrapToFirst") # {})
           <=> (PreviousHighlight >= LastNonDisabled(flatOptions) /\ highlightedIndex = 0)

\* C2 witness: [A, B, C-disabled]: the highlight moved from 1, the last
\* non-disabled option, to 0 and the scroll to 0 was requested.
C2_Witness ==
    /\ flatOptions = <<FALSE, FALSE, TRUE>>
    /\ usePreviousResult = <<1>>
    /\ highlightedIndex = 0
    /\ RequestsBy("wrapToFirst") # {}

\* The highlight of the last commit is new: first render, or moved.
HighlightChanged == usePreviousResult # <<highlightedIndex>>

\* C3 as stated: whenever the highlight changes to a value that is not the
\* index of a rendered row, the highlight effect requests a scroll to it with
\* 'end' alignment; when it is a rendered row the effect requests nothing.
C3_Original ==
    /\ (HighlightMoved /\ highlightedIndex \notin virtualItems)
          => ScrollRequest(highlightedIndex, "end", "highlight") \in RequestsBy("highlight")
    /\ highlightedIndex \in virtualItems => RequestsBy("highlight") = {}

\* C3 amended: the highlight effect requests a scroll, and then to the
\* highlighted index with 'end' alignment, exactly when the highlight changed
\* to an index other than -1 (none) that is not a rendered row; open or closed.
C3_ScrollFollowing ==
    /\ RequestsBy("highlight") \subseteq {ScrollRequest(highlightedIndex, "end", "highlight")}
    /\ (RequestsBy("highlight") # {})
       <=> (HighlightChanged /\ highlightedIndex # -1 /\ highlightedIndex \notin virtualItems)

\* C3 witness: a closed list whose highlight moved to a row that is not
\* rendered, and the scroll was requested.
C3_Witness ==
    /\ ~open
    /\ HighlightMoved
    /\ highlightedIndex # -1
    /\ virtualItems # {}
    /\ highlightedIndex \notin virtualItems
    /\ RequestsBy("highlight") # {}

\* The open-effect requests among a sequence of requests.
OpenRequests(reqs) == {reqs[i] : i \in {j \in 1..Len(reqs) : reqs[j].by = "open"}}

\* C4: a commit issues the open scroll exactly when the open flag goes from
\* closed (or not yet mounted) to open, and the request is for the highlighted
\* index of that render with 'end' alignment.
C4_OpenScroll ==
    [][IF open' /\ (~lmounted \/ ~open)
       THEN OpenRequests(scrollRequests')
               = {ScrollRequest(highlightedIndex', "end", "open")}
       ELSE OpenRequests(scrollRequests') = {}]_listVars

\* C4 witness: a list that was closed is opened with highlight 1 and the scroll
\* to row 1 was requested.
C4_Witness ==
    /\ HasPreviousRender
    /\ open
    /\ highlightedIndex = 1
    /\ ScrollRequest(1, "end", "open") \in RequestsBy("open")

\* C9 as stated: after a render with at most one virtual row the key is the
\* placeholder 1; the key changes when the number of rows becomes greater
\* than 1, and whenever the flat option count changes.
C9_Original ==
    [][lmounted =>
        /\ Cardinality(virtualItems') <= 1 => visibleOptionsInvalidateKey' = 1
        /\ (Cardinality(virtualItems) <= 1 /\ Cardinality(virtualItems') > 1)
              => visibleOptionsInvalidateKey' # visibleOptionsInvalidateKey
        /\ Len(flatOptions') # Len(flatOptions)
              => visibleOptionsInvalidateKey' # visibleOptionsInvalidateKey]_listVars

\* C10 as stated: every scroll request targets an index of the flat list.
C10_Original ==
    \A i \in 1..Len(scrollRequests) :
        /\ 0 <= scrollRequests[i].index
        /\ scrollRequests[i].index < Len(flatOptions)

\* ------------------------------------------------ group-start-index map

\* Largest number of entries of `options`, and of members of one group.
MaxOptions == 3
MaxGroupSize == 3

\* An entry of `options`: a top-level option, or a group with `size` members.
TopLevelOption == [group |-> FALSE, size |-> 1]
Group(n) == [group |-> TRUE, size |-> n]
OptionEntries == {TopLevelOption} \cup {Group(n) : n \in 0..MaxGroupSize}
OptionLists == UNION {[1..n -> OptionEntries] : n \in 0..MaxOptions}

\* isGroup(option)
IsGroup(option) == option.group

\* The reduce of groupStartIndexes from entry `index` (0-based) on, with the
\* accumulator `acc` and the running flat index `currentIndex`.
RECURSIVE GroupStartReduce(_, _, _, _)
GroupStartReduce(opts, index, currentIndex, acc) ==
    IF index >= Len(opts) THEN acc
    ELSE IF IsGroup(opts[index + 1])
         THEN GroupStartReduce(opts, index + 1, currentIndex + opts[index + 1].size,
                  [k \in DOMAIN acc \cup {currentIndex} |->
                      IF k = currentIndex THEN index ELSE acc[k]])
         ELSE GroupStartReduce(opts, index + 1, currentIndex + 1, acc)

EmptyMap == [k \in {} |-> 0]

GroupStartIndexes(opts) == GroupStartReduce(opts, 0, 0, EmptyMap)

\* The flat index of the first entry that comes from options[index] (0-based).
RECURSIVE FlatOffset(_, _)
FlatOffset(opts, index) ==
    IF index = 0 THEN 0 ELSE FlatOffset(opts, index - 1) + opts[index].size

\* flatOptions.length: the groups expanded in place.
FlatLength(opts) == FlatOffset(opts, Len(opts))

\* The header a rendered row gets: `group && <Optgroup .../>`.
RowHeader(map, row) == IF row \in DOMAIN map THEN <<map[row]>> ELSE <<>>

GroupsInit ==
    /\ options = <<>>
    /\ groupStartIndexes = EmptyMap
    /\ rowHeaders = EmptyMap

\* The owner passes another options list; the map is recomputed and every
\* row is rendered.
SetOptions ==
    \E opts \in OptionLists \ {options} :
        /\ options' = opts
        /\ groupStartIndexes' = GroupStartIndexes(opts)
        /\ rowHeaders' = [row \in 0..(FlatLength(opts) - 1) |->
                             RowHeader(GroupStartIndexes(opts), row)]
        /\ UNCHANGED <<listVars, modVars, popVars>>

GroupsNext == SetOptions

\* The groups of `options` (0-based indices).
GroupIndices == {g \in 0..(Len(options) - 1) : IsGroup(options[g + 1])}

\* Row `row` is the first member of group g.
IsFirstMemberOf(row, g) ==
    /\ g \in GroupIndices
    /\ options[g + 1].size > 0
    /\ row = FlatOffset(options, g)

\* C5 as stated: every key of the map is the flat index of the first member
\* of some group and its value is that group's index; a rendered row shows a
\* header exactly when it is the first member of a group, and then that
\* group's header.
C5_Original ==
    /\ \A k \in DOMAIN groupStartIndexes : IsFirstMemberOf(k, groupStartIndexes[k])
    /\ \A row \in DOMAIN rowHeaders :
          /\ rowHeaders[row] # <<>> <=> \E g \in GroupIndices : IsFirstMemberOf(row, g)
          /\ rowHeaders[row] # <<>> => IsFirstMemberOf(row, rowHeaders[row][1])

\* C5 case: [Z, G{X, Y}] gives the map {1 -> 1} and row 1 renders G's header.
C5_Witness ==
    /\ options = <<TopLevelOption, Group(2)>>
    /\ groupStartIndexes = [k \in {1} |-> 1]
    /\ rowHeaders[1] = <<1>>

\* -------------------------------------------------- Popover.getModifiers

Placements == {"top", "bottom"}

\* The lists a caller may pass as fallbackPlacements.
PlacementLists == {<<>>} \cup {<<p>> : p \in Placements}
                         \cup {<<p, q>> : p \in Placements, q \in Placements}

Modifier(name, opts) == [name |-> name, options |-> opts]

\* getModifiers(): options of the offset and preventOverflow modifiers do not
\* vary; the arrow's option is the arrow element, a flip's its fallback list.
GetModifiers(arrow, noFlip, fallback, noOverflow, arrowEl) ==
    <<Modifier("offset", <<"offset">>)>>
    \o (IF arrow THEN <<Modifier("arrow", <<arrowEl>>)>> ELSE <<>>)
    \o (IF noFlip THEN <<Modifier("flip", <<>>)>> ELSE <<>>)
    \o (IF fallback # <<>> THEN <<Modifier("flip", fallback[1])>> ELSE <<>>)
    \o (IF noOverflow THEN <<Modifier("preventOverflow", <<"mainAxis: false">>)>>
        ELSE <<>>)

ModInit ==
    /\ withArrow = FALSE
    /\ preventFlip = FALSE
    /\ fallbackPlacements = <<>>
    /\ preventOverflow = TRUE
    /\ arrowElement = "null"
    /\ modifiers = <<>>

\* A render of the Popover with the given flags.
RenderModifiers ==
    \E arrow \in BOOLEAN, noFlip \in BOOLEAN, noOverflow \in BOOLEAN,
       fallback \in {<<>>} \cup {<<l>> : l \in PlacementLists} :
        /\ withArrow' = arrow
        /\ preventFlip' = noFlip
        /\ fallbackPlacements' = fallback
        /\ preventOverflow' = noOverflow
        /\ modifiers' = GetModifiers(arrow, noFlip, fallback, noOverflow, arrowElement)
        /\ UNCHANGED <<arrowElement, listVars, groupVars, popVars>>

\* The arrow node mounts or unmounts (ref={setArrowElement}); the state update
\* renders again.
SetArrowElement ==
    \E el \in {"null", "arrow"} \ {arrowElement} :
        /\ el = "arrow" => withArrow
        /\ arrowElement' = el
        /\ modifiers' = GetModifiers(withArrow, preventFlip, fallbackPlacements,
                                     preventOverflow, el)
        /\ UNCHANGED <<withArrow, preventFlip, fallbackPlacements, preventOverflow,
                       listVars, groupVars, popVars>>

ModNext ==
    \/ RenderModifiers
    \/ SetArrowElement

\* The modifiers of the last render with the given name.
ModifiersNamed(name) ==
    {modifiers[i] : i \in {j \in 1..Len(modifiers) : modifiers[j].name = name}}
NumberNamed(name) == Cardinality({j \in 1..Len(modifiers) : modifiers[j].name = name})

\* C6 as stated: offset always; arrow exactly when withArrow; overflow
\* prevention exactly when not disabled; with preventFlip there is a flip
\* configuration and every one has an empty fallback list; a supplied
\* fallback list is a flip's list; never two conflicting flip modifiers.
C6_Original ==
    modifiers # <<>> =>
        /\ NumberNamed("offset") = 1
        /\ NumberNamed("arrow") = (IF withArrow THEN 1 ELSE 0)
        /\ NumberNamed("preventOverflow") = (IF preventOverflow THEN 1 ELSE 0)
        /\ preventFlip => /\ ModifiersNamed("flip") # {}
                          /\ \A m \in ModifiersNamed("flip") : m.options = <<>>
        /\ fallbackPlacements # <<>>
              => Modifier("flip", fallbackPlacements[1]) \in ModifiersNamed("flip")
        /\ Cardinality(ModifiersNamed("flip")) <= 1

\* C6 case: preventFlip together with a supplied fallback list.
C6_Witness ==
    /\ modifiers # <<>>
    /\ preventFlip
    /\ fallbackPlacements = <<(<<"bottom">>)>>

\* ------------------------------------- Popover: anchor, width, observer

\* Largest measured width, and the cap on connected observers explored.
MaxWidth == 2
MaxObservers == 3

Elements == {"a1", "a2"}
Anchors == {"null"} \cup Elements
Widths == 1..MaxWidth

\* new ResizeObserver(updatePopoverWidth), observing `anchor` when it is not
\* null.  The callback closes over useAnchorWidth and update.
Observer(anchor, uaw, upd) == [target |-> anchor, useAnchorWidth |-> uaw, update |-> upd]

\* The cleanup of the previous run of the observer effect: observer.disconnect().
Disconnect(obs) == IF obs = <<>> THEN <<>> ELSE SubSeq(obs, 1, Len(obs) - 1)

\* The observer effect without its cleanup.
ObserverEffectNoCleanup(changed, obs, anchor, uaw, upd) ==
    IF changed THEN Append(obs, Observer(anchor, uaw, upd)) ELSE obs

\* The observer effect, deps [anchorElement, update, updatePopoverWidth]:
\* cleanup of the previous run, then a new observer.
ObserverEffect(changed, obs, anchor, uaw, upd) ==
    IF changed THEN Append(Disconnect(obs), Observer(anchor, uaw, upd)) ELSE obs

\* updatePopoverWidth of an observer: does it call update.current()?
UpdatePopoverWidth(observer, current) ==
    observer.useAnchorWidth /\ observer.update /\ current # "null"

\* width: useAnchorWidth ? referenceElement?.offsetWidth : undefined
RenderedWidth(panel, uaw, ref, widths) ==
    IF panel /\ uaw /\ ref # "null" THEN <<widths[ref]>> ELSE <<>>

\* The effect `if (update && !update.current && updatePopper) update.current =
\* updatePopper`, where updatePopper is the update of the instance that existed
\* at render (hadInstance); `survives` tells whether that instance outlives
\* the commit.  A kept handle of a destroyed instance is stale.
UpdateCurrentEffect(upd, current, hadInstance, survives) ==
    IF upd /\ current = "null" /\ hadInstance
    THEN (IF survives THEN "live" ELSE "stale")
    ELSE IF current = "live" /\ ~survives THEN "stale"
    ELSE current

\* One commit of the Popover with props (anchor, uaw, upd, o); `panel` tells
\* whether the panel is in the tree after it.
PopoverCommit(anchor, uaw, upd, o, panel) ==
    LET first == ~pmounted
        ref == IF first THEN anchor ELSE referenceElement
        instanceRef == IF panel THEN ref ELSE "null"
        survives == instanceRef = popperReference
    IN  /\ pmounted' = TRUE
        /\ anchorElement' = anchor
        /\ useAnchorWidth' = uaw
        /\ update' = upd
        /\ popoverOpen' = o
        /\ panelMounted' = panel
        /\ appliedWidth' = RenderedWidth(panel, uaw, ref, offsetWidth)
        /\ popperReference' = instanceRef
        /\ updateCurrent' =
              UpdateCurrentEffect(upd, updateCurrent, popperReference # "null", survives)
        /\ referenceElement' = anchor
        /\ needsRender' = (anchor # ref \/ (instanceRef # "null" /\ ~survives))
        /\ observers' =
              ObserverEffect(first \/ anchor # anchorElement \/ upd # update
                                   \/ uaw # useAnchorWidth,
                             observers, anchor, uaw, upd)
        /\ UNCHANGED <<offsetWidth, listVars, groupVars, modVars>>

\* The panel after a render with `open` = o: CSSTransition (unmountOnExit)
\* keeps a closing panel until the exit ends; without transition the panel is
\* there exactly while open.
PanelAfterRender(o) == o \/ (withTransition /\ panelMounted)

PopInit ==
    /\ pmounted = FALSE
    /\ anchorElement = "null"
    /\ useAnchorWidth = FALSE
    /\ update = FALSE
    /\ updateCurrent = "null"
    /\ popoverOpen = FALSE
    /\ withTransition = TRUE
    /\ referenceElement = "null"
    /\ panelMounted = FALSE
    /\ popperReference = "null"
    /\ needsRender = FALSE
    /\ appliedWidth = <<>>
    /\ offsetWidth = [e \in Elements |-> 1]
    /\ observers = <<>>
    /\ resizeOutcome = "none"

PopoverMount ==
    /\ ~pmounted
    /\ Len(observers) < MaxObservers
    /\ \E anchor \in Anchors, uaw \in BOOLEAN, upd \in BOOLEAN, o \in BOOLEAN,
          wt \in BOOLEAN :
         /\ withTransition' = wt
         /\ resizeOutcome' = "none"
         /\ PopoverCommit(anchor, uaw, upd, o, o)

SetAnchor ==
    /\ pmounted
    /\ Len(observers) < MaxObservers
    /\ \E anchor \in Anchors \ {anchorElement} :
         /\ resizeOutcome' = "none"
         /\ PopoverCommit(anchor, useAnchorWidth, update, popoverOpen,
                          PanelAfterRender(popoverOpen))
    /\ UNCHANGED withTransition

SetUseAnchorWidth ==
    /\ pmounted
    /\ Len(observers) < MaxObservers
    /\ resizeOutcome' = "none"
    /\ PopoverCommit(anchorElement, ~useAnchorWidth, update, popoverOpen,
                     PanelAfterRender(popoverOpen))
    /\ UNCHANGED withTransition

SetUpdate ==
    /\ pmounted
    /\ Len(observers) < MaxObservers
    /\ resizeOutcome' = "none"
    /\ PopoverCommit(anchorElement, useAnchorWidth, ~update, popoverOpen,
                     PanelAfterRender(popoverOpen))
    /\ UNCHANGED withTransition

SetOpen ==
    /\ pmounted
    /\ resizeOutcome' = "none"
    /\ PopoverCommit(anchorElement, useAnchorWidth, update, ~popoverOpen,
                     PanelAfterRender(~popoverOpen))
    /\ UNCHANGED withTransition

\* The render a state update scheduled.
Flush ==
    /\ pmounted
    /\ needsRender
    /\ PopoverCommit(anchorElement, useAnchorWidth, update, popoverOpen,
                     PanelAfterRender(popoverOpen))
    /\ UNCHANGED <<withTransition, resizeOutcome>>

\* The exit transition ends: the panel leaves the tree, setPopperElement(null)
\* renders again.
TransitionExited ==
    /\ pmounted
    /\ withTransition
    /\ ~popoverOpen
    /\ panelMounted
    /\ PopoverCommit(anchorElement, useAnchorWidth, update, popoverOpen, FALSE)
    /\ UNCHANGED <<withTransition, resizeOutcome>>

\* Element e gets width w.  Every connected observer of e runs its callback;
\* a call of a live handle recomputes the position, which renders again.
AnchorResize ==
    \E e \in Elements : \E w \in Widths \ {offsetWidth[e]} :
        LET watching == {i \in 1..Len(observers) : observers[i].target = e}
            calling == {i \in watching : UpdatePopoverWidth(observers[i], updateCurrent)}
        IN  /\ offsetWidth' = [offsetWidth EXCEPT ![e] = w]
            /\ needsRender' = (needsRender \/ (calling # {} /\ updateCurrent = "live"))
            /\ resizeOutcome' = IF watching = {} THEN resizeOutcome
                                ELSE IF calling # {} THEN "invoked" ELSE "skipped"
            /\ UNCHANGED <<pmounted, anchorElement, useAnchorWidth, update,
                           updateCurrent, popoverOpen, withTransition,
                           referenceElement, panelMounted, popperReference,
                           appliedWidth, observers, listVars, groupVars, modVars>>

\* Unmount: every effect cleans up; the positioning instance is destroyed.
PopoverUnmount ==
    /\ pmounted
    /\ pmounted' = FALSE
    /\ observers' = Disconnect(observers)
    /\ panelMounted' = FALSE
    /\ popperReference' = "null"
    /\ updateCurrent' = (IF updateCurrent = "live" THEN "stale" ELSE updateCurrent)
    /\ appliedWidth' = <<>>
    /\ needsRender' = FALSE
    /\ resizeOutcome' = "none"
    /\ UNCHANGED <<anchorElement, useAnchorWidth, update, popoverOpen,
                   withTransition, referenceElement, offsetWidth,
                   listVars, groupVars, modVars>>

PopNext ==
    \/ PopoverMount
    \/ SetAnchor
    \/ SetUseAnchorWidth
    \/ SetUpdate
    \/ SetOpen
    \/ Flush
    \/ TransitionExited
    \/ AnchorResize
    \/ PopoverUnmount

\* C7 as stated: mounted with its panel, useAnchorWidth set, anchor not null:
\* an observed resize of the anchor invokes the recompute, and once the
\* renders it schedules are done the panel's width is the anchor's measured
\* width; with or without the caller's update handle.
C7_Original ==
    (/\ pmounted /\ panelMounted /\ useAnchorWidth /\ anchorElement # "null"
     /\ resizeOutcome # "none")
    => /\ resizeOutcome = "invoked"
       /\ ~needsRender => appliedWidth = <<offsetWidth[anchorElement]>>

\* C7 case: an open Popover with useAnchorWidth and no update handle whose
\* anchor was resized.
C7_Witness ==
    /\ pmounted /\ useAnchorWidth /\ ~update /\ panelMounted /\ ~needsRender
    /\ anchorElement # "null"
    /\ resizeOutcome # "none"

\* C8: at most one connected observer; mounted with an anchor it observes
\* exactly that anchor, with a null anchor nothing is observed, and after
\* unmount none is connected.
C8_ObserverLifecycle ==
    /\ Len(observers) <= 1
    /\ pmounted => /\ Len(observers) = 1
                   /\ observers[1].target = anchorElement
    /\ ~pmounted => observers = <<>>

\* C8 witness: the anchor has just changed from one element to another (the
\* state still holds the old one) and the observer observes the new one.
C8_Witness ==
    /\ pmounted
    /\ anchorElement = "a2"
    /\ popperReference = "a1"
    /\ observers = <<Observer("a2", useAnchorWidth, update)>>

vars == <<listVars, groupVars, modVars, popVars>>

Init == ListInit /\ GroupsInit /\ ModInit /\ PopInit

\* VirtualOptionsList: renders, scroll effects, height-invalidation key.
Spec == Init /\ [][ListNext]_vars

\* VirtualOptionsList: the group-start-index map.
SpecGroups == Init /\ [][GroupsNext]_vars

\* Popover: the modifier list.
SpecModifiers == Init /\ [][ModNext]_vars

\* Popover: anchor, width mirroring and resize observation.
SpecPopover == Init /\ [][PopNext]_vars

====
